---------------------------- MODULE Spec2Model ----------------------------
(***************************************************************************)
(* Model of boartty/search/parser.py: the search-query compiler.          *)
(*                                                                         *)
(* Two specifications share the definitions below.                         *)
(*   TermSpec  applies one term translator (p_age_term, p_label_term, ...) *)
(*             to arguments drawn from bounded sets.                       *)
(*   Spec      runs the LALR(1) shift/reduce engine that yacc.yacc builds  *)
(*             from the productions and the precedence table of            *)
(*             SearchParser, token by token, with the engine's error       *)
(*             handling (p_error, and the recovery mode a SyntaxError      *)
(*             raised inside a production puts the engine in).             *)
(*                                                                         *)
(* Python strings are sequences of one-character strings, so that          *)
(* startswith, slicing and the label regular expression are computed.      *)
(* SQL expressions are tuples whose first element is a tag:                *)
(*   <<"cmp", op, column, operand>>     column <op> operand                *)
(*   <<"and", clauses>>, <<"or", clauses>>, <<"not", clause>>              *)
(*   <<"in", column, <<"select", column, whereclause>>>>                   *)
(*   <<"in_list", column, values>>, <<"notin_list", column, values>>       *)
(*   <<"matches", pattern, operand>>    func.matches(pattern, operand)     *)
(*   <<"true">>                         the Python constant True           *)
(***************************************************************************)
EXTENDS Integers, Sequences, FiniteSets, TLC

VARIABLES
  stack,            \* statestack/symstack above state 0: <<[st, val], ...>>
  lookahead,        \* the engine's lookahead token ([type |-> "none"]: None)
  lookaheadstack,   \* the engine's pushback stack of tokens
  errorcount,       \* shifts left before p_error is called again
  outcome,          \* "running" | "returned" | "raised"
  exc,              \* the exception that left parse(), or "none"
  result,           \* the value parse() returned
  consumed,         \* the tokens the lexer has handed out so far
  called,           \* the grammar callbacks run so far, in order
  cls,              \* the family the query is drawn from
  tin,              \* TermSpec: the translator's arguments
  tout              \* TermSpec: the translator's result

vars == <<stack, lookahead, lookaheadstack, errorcount, outcome, exc, result,
          consumed, called, cls, tin, tout>>

parserVars == <<stack, lookahead, lookaheadstack, errorcount, outcome, exc,
                result, consumed, called, cls>>

-----------------------------------------------------------------------------
(* Bounds of the model *)

MaxRaw == 4
MaxGrammar == 8
MaxNested == 6
MaxLabelLen == 5
MaxNumber == 3
MaxSuffix == 2

-----------------------------------------------------------------------------
(* Python strings *)

Letters == {"a","b","c","d","e","f","g","h","i","j","k","l","m","n","o","p",
            "q","r","s","t","u","v","w","x","y","z",
            "A","B","C","D","E","F","G","H","I","J","K","L","M","N","O","P",
            "Q","R","S","T","U","V","W","X","Y","Z"}
Digits == {"0","1","2","3","4","5","6","7","8","9"}

DigitVal(c) ==
  CASE c = "0" -> 0 [] c = "1" -> 1 [] c = "2" -> 2 [] c = "3" -> 3
    [] c = "4" -> 4 [] c = "5" -> 5 [] c = "6" -> 6 [] c = "7" -> 7
    [] c = "8" -> 8 [] c = "9" -> 9

\* s.startswith(c) for a one-character c
StartsWith(s, c) == Len(s) >= 1 /\ s[1] = c

\* s[k:]
SliceFrom(s, k) == SubSeq(s, k + 1, Len(s))

\* s.startswith(p) for a string p
HasPrefix(s, p) == Len(s) >= Len(p) /\ SubSeq(s, 1, Len(p)) = p

LowerChar(c) ==
  CASE c = "A" -> "a" [] c = "N" -> "n" [] c = "D" -> "d"
    [] c = "O" -> "o" [] c = "R" -> "r" [] OTHER -> c

\* s.lower(), on the letters of the connectives
Lower(s) == [i \in 1..Len(s) |-> LowerChar(s[i])]

\* int(s) for s = [-+]?[0-9]+
RECURSIVE DigitsToInt(_)
DigitsToInt(s) ==
  IF s = <<>> THEN 0
  ELSE 10 * DigitsToInt(SubSeq(s, 1, Len(s) - 1)) + DigitVal(s[Len(s)])

PyInt(s) ==
  IF s[1] = "-" THEN 0 - DigitsToInt(SliceFrom(s, 1))
  ELSE IF s[1] = "+" THEN DigitsToInt(SliceFrom(s, 1))
  ELSE DigitsToInt(s)

S_open == <<"o","p","e","n">>
S_closed == <<"c","l","o","s","e","d">>
S_draft == <<"d","r","a","f","t">>
S_star == <<"s","t","a","r">>
S_bogus == <<"b","o","g","u","s">>
S_reviewed == <<"r","e","v","i","e","w","e","d">>
S_submitted == <<"s","u","b","m","i","t","t","e","d">>
S_merged == <<"m","e","r","g","e","d">>
S_abandoned == <<"a","b","a","n","d","o","n","e","d">>
S_owner == <<"o","w","n","e","r">>
S_starred == <<"s","t","a","r","r","e","d">>
S_held == <<"h","e","l","d">>
S_reviewer == <<"r","e","v","i","e","w","e","r">>
S_watched == <<"w","a","t","c","h","e","d">>
S_self == <<"s","e","l","f">>
S_MERGED == <<"M","E","R","G","E","D">>
S_ABANDONED == <<"A","B","A","N","D","O","N","E","D">>
S_SUBMITTED == <<"S","U","B","M","I","T","T","E","D">>
S_and == <<"a","n","d">>
S_or == <<"o","r">>
S_AND == <<"A","N","D">>
S_refs_heads == <<"r","e","f","s","/","h","e","a","d","s","/">>
S_user_eq == <<"u","s","e","r","=">>

\* p.parser.username, the identity the caller bound before parsing
username == <<"m","e">>

-----------------------------------------------------------------------------
(* SQL expressions (sqlalchemy.sql.expression) *)

and_(clauses) == <<"and", clauses>>
or_(clauses) == <<"or", clauses>>
not_(clause) == <<"not", clause>>
Cmp(op, column, operand) == <<"cmp", op, column, operand>>
Col(name) == <<"col", name>>
Lit(v) == <<"lit", v>>
Select(column, where) == <<"select", column, where>>
In(column, sel) == <<"in", column, sel>>
PyTrue == <<"true">>

\* A translator either yields a predicate or raises.
Yield(p) == [exc |-> "none", val |-> p]
Raise(e) == [exc |-> e, val |-> <<"None">>]

-----------------------------------------------------------------------------
(* age_to_delta and the unit strings it knows *)

U_seconds == <<"s","e","c","o","n","d","s">>
U_second == <<"s","e","c","o","n","d">>
U_sec == <<"s","e","c">>
U_s == <<"s">>
U_minutes == <<"m","i","n","u","t","e","s">>
U_minute == <<"m","i","n","u","t","e">>
U_min == <<"m","i","n">>
U_m == <<"m">>
U_hours == <<"h","o","u","r","s">>
U_hour == <<"h","o","u","r">>
U_hr == <<"h","r">>
U_h == <<"h">>
U_days == <<"d","a","y","s">>
U_day == <<"d","a","y">>
U_d == <<"d">>
U_weeks == <<"w","e","e","k","s">>
U_week == <<"w","e","e","k">>
U_w == <<"w">>
U_months == <<"m","o","n","t","h","s">>
U_month == <<"m","o","n","t","h">>
U_mon == <<"m","o","n">>
U_years == <<"y","e","a","r","s">>
U_year == <<"y","e","a","r">>
U_y == <<"y">>

SecondUnits == {U_seconds, U_second, U_sec, U_s}
MinuteUnits == {U_minutes, U_minute, U_min, U_m}
HourUnits == {U_hours, U_hour, U_hr, U_h}
DayUnits == {U_days, U_day, U_d}
WeekUnits == {U_weeks, U_week, U_w}
MonthUnits == {U_months, U_month, U_mon}
YearUnits == {U_years, U_year, U_y}

\* a mutation of age_to_delta: a month of 31 days
age_to_delta_month31(delta, unit) ==
  IF unit \in MonthUnits THEN delta * 60 * 60 * 24 * 31
  ELSE IF unit \in YearUnits THEN delta * 60 * 60 * 24 * 365
  ELSE IF unit \in WeekUnits THEN delta * 60 * 60 * 24 * 7
  ELSE IF unit \in DayUnits THEN delta * 60 * 60 * 24
  ELSE IF unit \in HourUnits THEN delta * 60 * 60
  ELSE IF unit \in MinuteUnits THEN delta * 60
  ELSE delta

age_to_delta(delta, unit) ==
  IF unit \in SecondUnits THEN delta
  ELSE IF unit \in MinuteUnits THEN delta * 60
  ELSE IF unit \in HourUnits THEN delta * 60 * 60
  ELSE IF unit \in DayUnits THEN delta * 60 * 60 * 24
  ELSE IF unit \in WeekUnits THEN delta * 60 * 60 * 24 * 7
  ELSE IF unit \in MonthUnits THEN delta * 60 * 60 * 24 * 30
  ELSE IF unit \in YearUnits THEN delta * 60 * 60 * 24 * 365
  ELSE delta

-----------------------------------------------------------------------------
(* Term translators.  Each takes the production's p[2] (and p[3]) and      *)
(* yields a predicate or raises.                                           *)

\* now is datetime.datetime.utcnow(), in seconds from datetime.min; the
\* subtraction raises OverflowError when its result would be before
\* datetime.min.
p_age_term(number, unit, now) ==
  LET delta == age_to_delta(number, unit)
  IN  IF now - delta < 0 THEN Raise("OverflowError")
      ELSE Yield(Cmp("<", "story.updated", Lit(now - delta)))

p_recentlyseen_term(number, unit) ==
  LET delta == age_to_delta(number, unit)
      s == <<"select", <<"func.datetime", <<"func.max", "story.last_seen">>,
                         <<"-%s seconds", delta>>>>>>
  IN  Yield(Cmp(">=", "story.last_seen", s))

\* a mutation of p_ref_term: strip the prefix only when it is there
p_ref_term_checked(str) ==
  IF StartsWith(str, "^")
  THEN Yield(<<"matches", str, <<"concat", S_refs_heads, Col("story.branch")>>>>)
  ELSE IF HasPrefix(str, S_refs_heads)
       THEN Yield(Cmp("==", "story.branch", Lit(SliceFrom(str, Len(S_refs_heads)))))
       ELSE Yield(Cmp("==", "story.branch", Lit(str)))

p_ref_term(str) ==
  IF StartsWith(str, "^")
  THEN Yield(<<"matches", str, <<"concat", S_refs_heads, Col("story.branch")>>>>)
  ELSE Yield(Cmp("==", "story.branch", Lit(SliceFrom(str, Len(S_refs_heads)))))

p_status_term(str) ==
  IF str = S_open
  THEN Yield(<<"notin_list", "story.status", <<S_MERGED, S_ABANDONED>>>>)
  ELSE IF str = S_closed
  THEN Yield(<<"in_list", "story.status", <<S_MERGED, S_ABANDONED>>>>)
  ELSE Yield(Cmp("==", "story.status", Lit(str)))

p_limit_term(number) == Yield(PyTrue)

HasDraftSelect ==
  Select("story.key",
         and_(<<Cmp("==", "revision.story_key", Col("story.key")),
                Cmp("==", "message.revision_key", Col("revision.key")),
                Cmp("==", "message.draft", PyTrue)>>))

\* a mutation of p_has_term: an unsupported value matches nothing
p_has_term_lenient(str) ==
  IF str = S_draft THEN Yield(In("story.key", HasDraftSelect))
  ELSE Yield(not_(PyTrue))

p_has_term(str) ==
  IF str = S_draft THEN Yield(In("story.key", HasDraftSelect))
  ELSE Raise("SearchSyntaxError")

IsReviewedSelect ==
  Select("story.key",
         and_(<<Cmp("==", "approval.story_key", Col("story.key")),
                Cmp("!=", "approval.value", Lit(0))>>))

IsReviewerSelect ==
  Select("story.key",
         and_(<<Cmp("==", "approval.story_key", Col("story.key")),
                Cmp("==", "approval.user_key", Col("user.key")),
                Cmp("==", "user.username", Lit(username))>>))

p_is_term(str) ==
  IF str = S_reviewed THEN Yield(In("story.key", IsReviewedSelect))
  ELSE IF str = S_open
  THEN Yield(<<"notin_list", "story.status", <<S_MERGED, S_ABANDONED>>>>)
  ELSE IF str = S_closed
  THEN Yield(<<"in_list", "story.status", <<S_MERGED, S_ABANDONED>>>>)
  ELSE IF str = S_submitted THEN Yield(Cmp("==", "story.status", Lit(S_SUBMITTED)))
  ELSE IF str = S_merged THEN Yield(Cmp("==", "story.status", Lit(S_MERGED)))
  ELSE IF str = S_abandoned THEN Yield(Cmp("==", "story.status", Lit(S_ABANDONED)))
  ELSE IF str = S_owner THEN Yield(Cmp("==", "user.username", Lit(username)))
  ELSE IF str = S_starred THEN Yield(Cmp("==", "story.starred", PyTrue))
  ELSE IF str = S_held THEN Yield(Cmp("==", "story.held", PyTrue))
  ELSE IF str = S_reviewer THEN Yield(In("story.key", IsReviewerSelect))
  ELSE IF str = S_watched THEN Yield(Cmp("==", "project.subscribed", PyTrue))
  ELSE Raise("SearchSyntaxError")

\* Python's "x is not None" on the Column object file_table.c.status: an
\* identity test of two Python objects, evaluated when the term is compiled.
\* A Column is never the None singleton.
ColumnIsNotNone(column) == PyTrue

p_file_term(str) ==
  IF StartsWith(str, "^")
  THEN Yield(and_(<<or_(<<<<"matches", str, Col("file.path")>>,
                          <<"matches", str, Col("file.old_path")>>>>),
                    ColumnIsNotNone("file.status")>>))
  ELSE Yield(and_(<<or_(<<Cmp("==", "file.path", Lit(str)),
                          Cmp("==", "file.old_path", Lit(str))>>),
                    ColumnIsNotNone("file.status")>>))

p_op_term == Raise("SyntaxError")

-----------------------------------------------------------------------------
(* label_re and p_label_term.                                              *)
(*                                                                         *)
(*   (?P<label>[a-zA-Z0-9_-]+([a-zA-Z]|((?<![-+])[0-9])))                  *)
(*   (?P<operator>[<>]?=?)(?P<value>[-+]?[0-9]+)                           *)
(*   ($|,(user=)?(?P<user>\S+))                                            *)
(*                                                                         *)
(* re.match anchors at the start.  The label's "+" is greedy, so of the    *)
(* splits that let the rest of the pattern match, the engine finds the one *)
(* with the longest label first.  After the label nothing is left to       *)
(* choose: an operator or sign character can only be consumed by its own   *)
(* optional item, and the digits must be followed by the end or a comma.   *)
(* ("$" also matches before a final newline; the strings here have none.)  *)

IsLabelChar(c) == c \in Letters \cup Digits \cup {"_", "-"}
IsSpace(c) == c \in {" ", "\t", "\n", "\r"}

\* s[1..i] matches the label group
LabelEndsAt(s, i) ==
  /\ i >= 2
  /\ i <= Len(s)
  /\ \A k \in 1..(i - 1) : IsLabelChar(s[k])
  /\ \/ s[i] \in Letters
     \/ s[i] \in Digits /\ s[i - 1] \notin {"-", "+"}

\* the position after [<>]?=? started at j
OpEnd(s, j) ==
  LET j1 == IF j <= Len(s) /\ s[j] \in {"<", ">"} THEN j + 1 ELSE j
  IN  IF j1 <= Len(s) /\ s[j1] = "=" THEN j1 + 1 ELSE j1

\* the position after [-+]? started at j
SignEnd(s, j) == IF j <= Len(s) /\ s[j] \in {"-", "+"} THEN j + 1 ELSE j

\* the position after the longest run of characters of class C started at j
RECURSIVE RunEnd(_, _, _)
RunEnd(s, j, C) ==
  IF j <= Len(s) /\ s[j] \in C THEN RunEnd(s, j + 1, C) ELSE j

NonSpace(s) == {s[k] : k \in 1..Len(s)} \ {" ", "\t", "\n", "\r"}

\* the groups of the match whose label is s[1..i], or [ok |-> FALSE]
LabelGroups(s, i) ==
  LET n == Len(s)
      o == i + 1
      v == OpEnd(s, o)
      d == SignEnd(s, v)
      e == RunEnd(s, d, Digits)
      \* ",user=" followed by at least one non-space character
      u1 == e + 1 + Len(S_user_eq)
      withUserEq == /\ u1 <= n
                    /\ SubSeq(s, e + 1, e + Len(S_user_eq)) = S_user_eq
                    /\ ~IsSpace(s[u1])
      u == IF withUserEq THEN u1 ELSE e + 1
      tailOK == \/ e = n + 1
                \/ /\ e <= n
                   /\ s[e] = ","
                   /\ u <= n
                   /\ ~IsSpace(s[u])
  IN  IF LabelEndsAt(s, i) /\ e > d /\ tailOK
      THEN [ok |-> TRUE,
            label |-> SubSeq(s, 1, i),
            operator |-> SubSeq(s, o, v - 1),
            value |-> SubSeq(s, v, e - 1),
            hasUser |-> e <= n,
            user |-> IF e <= n
                     THEN SubSeq(s, u, RunEnd(s, u, NonSpace(s)) - 1)
                     ELSE <<>>]
      ELSE [ok |-> FALSE]

\* label_re.match(s): the match object's groups, or [ok |-> FALSE] for None
label_re_match(s) ==
  LET I == {i \in 2..Len(s) : LabelGroups(s, i).ok}
  IN  IF I = {} THEN [ok |-> FALSE]
      ELSE LabelGroups(s, CHOOSE i \in I : \A k \in I : k <= i)

LabelUserFilters(user) ==
  IF user = S_self
  THEN <<Cmp("==", "approval.user_key", Col("user.key")),
         Cmp("==", "user.username", Lit(username))>>
  ELSE <<Cmp("==", "approval.user_key", Col("user.key")),
         or_(<<Cmp("==", "user.username", Lit(user)),
               Cmp("==", "user.email", Lit(user)),
               Cmp("==", "user.name", Lit(user))>>)>>

\* a mutation of LabelFilters: an operator that is not handled means equality
LabelFilters_else_eq(label, op, value, hasUser, user) ==
  <<Cmp("==", "approval.story_key", Col("story.key")),
    Cmp("==", "approval.category", Lit(label))>>
  \o (IF op = <<">", "=">> THEN <<Cmp(">=", "approval.value", Lit(value))>>
      ELSE IF op = <<"<", "=">> THEN <<Cmp("<=", "approval.value", Lit(value))>>
      ELSE <<Cmp("==", "approval.value", Lit(value))>>)
  \o (IF hasUser THEN LabelUserFilters(user) ELSE <<>>)

\* the filters p_label_term collects for the groups of a match
LabelFilters(label, op, value, hasUser, user) ==
  <<Cmp("==", "approval.story_key", Col("story.key")),
    Cmp("==", "approval.category", Lit(label))>>
  \o (IF op = <<"=">> THEN <<Cmp("==", "approval.value", Lit(value))>>
      ELSE IF op = <<">", "=">> THEN <<Cmp(">=", "approval.value", Lit(value))>>
      ELSE IF op = <<"<", "=">> THEN <<Cmp("<=", "approval.value", Lit(value))>>
      ELSE <<>>)
  \o (IF hasUser THEN LabelUserFilters(user) ELSE <<>>)

\* args is None when the string does not match: args.group raises
\* AttributeError, which nothing in the production catches.
p_label_term(str) ==
  LET args == label_re_match(str)
  IN  IF ~args.ok THEN Raise("AttributeError")
      ELSE LET op == IF args.operator = <<>> THEN <<"=">> ELSE args.operator
               value == PyInt(args.value)
               filters == LabelFilters(args.label, op, value,
                                       args.hasUser, args.user)
           IN  Yield(In("story.key", Select("story.key", and_(filters))))

-----------------------------------------------------------------------------
(* What a compiled file predicate selects: SQL's three-valued evaluation   *)
(* ("T", "F", "U" for unknown) of an expression over one row of the file   *)
(* table.  A row is selected when the expression evaluates to "T".         *)

NULL == <<"NULL">>

\* func.matches(pattern, column) is evaluated by the database; a row carries
\* the answer for each path column ("T", "F", or "U" for NULL), and every
\* combination of answers is a row.
MatchValue(row, column) ==
  CASE column = "file.path" -> row.path_matches
    [] column = "file.old_path" -> row.old_path_matches

RowValue(row, column) ==
  CASE column = "file.path" -> row.path
    [] column = "file.old_path" -> row.old_path
    [] column = "file.status" -> row.status

Truth(b) == IF b THEN "T" ELSE "F"

And3(vals) ==
  IF "F" \in vals THEN "F" ELSE IF "U" \in vals THEN "U" ELSE "T"

Or3(vals) ==
  IF "T" \in vals THEN "T" ELSE IF "U" \in vals THEN "U" ELSE "F"

Not3(v) == IF v = "T" THEN "F" ELSE IF v = "F" THEN "T" ELSE "U"

RECURSIVE Eval(_, _)
Eval(e, row) ==
  CASE e[1] = "true" -> "T"
    [] e[1] = "and" -> And3({Eval(e[2][k], row) : k \in 1..Len(e[2])})
    [] e[1] = "or" -> Or3({Eval(e[2][k], row) : k \in 1..Len(e[2])})
    [] e[1] = "not" -> Not3(Eval(e[2], row))
    [] e[1] = "cmp" ->
         IF RowValue(row, e[3]) = NULL THEN "U"
         ELSE IF e[2] = "==" THEN Truth(RowValue(row, e[3]) = e[4][2])
         ELSE Truth(RowValue(row, e[3]) # e[4][2])
    [] e[1] = "matches" -> MatchValue(row, e[3][2])

Selects(e, row) == Eval(e, row) = "T"

-----------------------------------------------------------------------------
(* TermSpec: one translator applied to arguments from bounded sets *)

\* strings over a set of characters, up to a length
StringsUpTo(chars, n) == UNION {[1..k -> chars] : k \in 0..n}

Units ==
  SecondUnits \cup MinuteUnits \cup HourUnits \cup DayUnits \cup WeekUnits
    \cup MonthUnits \cup YearUnits
    \cup {<<"x">>, <<"f","o","r","t","n","i","g","h","t">>, <<"H">>, <<>>}

\* readings of datetime.datetime.utcnow(), in seconds from datetime.min
\* (readings in the year 58, for the arithmetic to stay within 32 bits)
Nows == {1800000000, 1800000001}

\* the values of a NUMBER token; 58 years are more than a reading of Nows
Numbers == (0..MaxNumber) \cup {58}

LabelChars == {"V", "1", "-", "<", ">", "="}
LabelUserTails ==
  {<<",", "m", "e">>, <<",">> \o S_self, <<",">> \o S_user_eq \o <<"m", "e">>,
   <<",">> \o S_user_eq}
LabelStrings ==
  StringsUpTo(LabelChars, MaxLabelLen)
    \cup {<<"V", "V">> \o o \o <<"1">> \o t :
            o \in {<<>>, <<"=">>, <<"<">>, <<">">>, <<"<", "=">>, <<">", "=">>},
            t \in LabelUserTails}

RefPrefixes ==
  {<<>>, S_refs_heads, <<"^">> \o S_refs_heads,
   <<"r","e","f","s","/","t","a","g","s","/","v">>,
   <<"m","a","s","t","e","r">>}
RefStrings ==
  {p \o x : p \in RefPrefixes, x \in StringsUpTo({"x", "/", "^"}, MaxSuffix)}

FileStrings ==
  LET lit == StringsUpTo({"a", "b"}, MaxSuffix) \ {<<>>}
  IN  lit \cup {<<"^">> \o x : x \in lit}

FileRows ==
  LET names == StringsUpTo({"a", "b"}, MaxSuffix) \ {<<>>}
  IN  [path : names, old_path : names \cup {NULL}, status : {NULL, <<"M">>},
       path_matches : {"T", "F"}, old_path_matches : {"T", "F", "U"}]

Words ==
  {S_open, S_closed, S_draft, S_star, S_bogus, S_reviewed, S_submitted,
   S_merged, S_abandoned, S_owner, S_starred, S_held, S_reviewer, S_watched,
   S_self, S_MERGED, <<>>}

TermInput(kind, number, str, now) ==
  [kind |-> kind, number |-> number, str |-> str, now |-> now]

TermInputs ==
  {TermInput("age", n, u, t) : n \in Numbers, u \in Units, t \in Nows}
    \cup {TermInput("recentlyseen", n, u, 0) : n \in Numbers, u \in Units}
    \cup {TermInput("label", 0, x, 0) : x \in LabelStrings}
    \cup {TermInput("ref", 0, x, 0) : x \in RefStrings}
    \cup {TermInput("file", 0, x, 0) : x \in FileStrings}
    \cup {TermInput(k, 0, x, 0) : k \in {"is", "has", "status"}, x \in Words}
    \cup {TermInput("limit", n, <<>>, 0) : n \in 0..MaxNumber}

Idle == TermInput("none", 0, <<>>, 0)
Pending == [exc |-> "pending", val |-> <<"None">>]

ParserIdle ==
  /\ stack = <<>>
  /\ lookahead = [type |-> "none"]
  /\ lookaheadstack = <<>>
  /\ errorcount = 0
  /\ outcome = "idle"
  /\ exc = "none"
  /\ result = <<"None">>
  /\ consumed = <<>>
  /\ called = <<>>
  /\ cls = "none"

TermInit ==
  /\ tin \in TermInputs
  /\ tout = Pending
  /\ ParserIdle

Translate(kind, out) ==
  /\ tin.kind = kind
  /\ tout.exc = "pending"
  /\ tout' = out
  /\ UNCHANGED <<tin, parserVars>>

Call_p_age_term == Translate("age", p_age_term(tin.number, tin.str, tin.now))
Call_p_recentlyseen_term ==
  Translate("recentlyseen", p_recentlyseen_term(tin.number, tin.str))
Call_p_label_term == Translate("label", p_label_term(tin.str))
Call_p_ref_term == Translate("ref", p_ref_term(tin.str))
Call_p_file_term == Translate("file", p_file_term(tin.str))
Call_p_is_term == Translate("is", p_is_term(tin.str))
Call_p_has_term == Translate("has", p_has_term(tin.str))
Call_p_status_term == Translate("status", p_status_term(tin.str))
Call_p_limit_term == Translate("limit", p_limit_term(tin.number))

TermNext ==
  \/ Call_p_age_term
  \/ Call_p_recentlyseen_term
  \/ Call_p_label_term
  \/ Call_p_ref_term
  \/ Call_p_file_term
  \/ Call_p_is_term
  \/ Call_p_has_term
  \/ Call_p_status_term
  \/ Call_p_limit_term

TermSpec == TermInit /\ [][TermNext]_vars

-----------------------------------------------------------------------------
(* Tokens *)

Tok(type, value) == [type |-> type, value |-> value]
NoTok == [type |-> "none"]
EndTok == [type |-> "$end"]
ErrorTok == [type |-> "error"]

StringTypes == {"SSTRING", "DSTRING", "USTRING"}

\* the operator tokens the model carries, and the arguments of their
\* productions: "S" a string, "N" a NUMBER, "NS" a NUMBER then a string
OpSig(type) ==
  CASE type \in {"OP_AGE", "OP_RECENTLYSEEN"} -> "NS"
    [] type \in {"OP_LIMIT"} -> "N"
    [] type \in {"OP_STATUS", "OP_IS", "OP_HAS", "OP_LABEL", "OP_FILE",
                 "OP_REF"} -> "S"

TermOps ==
  {"OP_AGE", "OP_RECENTLYSEEN", "OP_LIMIT", "OP_STATUS", "OP_IS", "OP_HAS",
   "OP_LABEL", "OP_FILE", "OP_REF"}

\* the tokens an expression can start with, and those that can follow one
FirstExpr == {"NOT", "NEG", "LPAREN", "OP"} \cup TermOps
FollowExpr == FirstExpr \cup {"AND", "OR", "RPAREN", "$end"}

Terminals ==
  FirstExpr \cup {"AND", "OR", "RPAREN", "NUMBER"} \cup StringTypes

-----------------------------------------------------------------------------
(* The parsing table yacc.yacc builds.                                     *)
(*                                                                         *)
(* The states are those of the LALR(1) automaton of the productions, named *)
(* by what is on the stack.  The unit productions (string, term and the    *)
(* alternatives of expression, whose callbacks copy p[1]) are folded into  *)
(* the reduction before them: they reduce on the same lookahead.           *)
(*   S0            nothing                                                 *)
(*   A, O, N, G, L expression AND, expression OR, NOT, NEG, LPAREN         *)
(*   E1            expression, at the bottom                               *)
(*   E2            expression expression                                   *)
(*   EA, EO        expression AND expression, expression OR expression     *)
(*   EN, EG        NOT expression, NEG expression                          *)
(*   EL, R         LPAREN expression, LPAREN expression RPAREN             *)
(*   OP            the catch-all OP token                                  *)
(*   <<"OPX", t>>  operator token t; <<"OPN", t>> t and a NUMBER, a string *)
(*   to come; <<"ARGS", t>> t and all its arguments                        *)

\* a mutation of precedence: no precedence declared
precedence_none == <<>>

\* a mutation of precedence: the connectives declared left-associative
precedence_left_connectives ==
  <<[assoc |-> "left", tokens |-> {"AND", "OR"}],
    [assoc |-> "left", tokens |-> {"NOT", "NEG"}]>>

\* SearchParser.precedence, lowest level first
precedence == <<[assoc |-> "left", tokens |-> {"NOT", "NEG"}]>>

\* the right-hand sides of the productions that take part in a conflict
Rhs(prod) ==
  CASE prod = "list_expr" -> <<"expression", "expression">>
    [] prod = "boolean_expr_and" -> <<"expression", "AND", "expression">>
    [] prod = "boolean_expr_or" -> <<"expression", "OR", "expression">>
    [] prod = "negative_expr_not" -> <<"NOT", "expression">>
    [] prod = "negative_expr_neg" -> <<"NEG", "expression">>
    [] prod = "paren_expr" -> <<"LPAREN", "expression", "RPAREN">>

\* a token's precedence; yacc's default for an undeclared one is right, 0
TokenPrec(a) ==
  LET I == {i \in 1..Len(precedence) : a \in precedence[i].tokens}
  IN  IF I = {} THEN [assoc |-> "right", level |-> 0]
      ELSE LET i == CHOOSE i \in I : TRUE
           IN  [assoc |-> precedence[i].assoc, level |-> i]

\* a production's precedence: that of its rightmost terminal
ProdPrec(prod) ==
  LET rhs == Rhs(prod)
      I == {i \in 1..Len(rhs) : rhs[i] \in Terminals}
  IN  IF I = {} THEN [assoc |-> "right", level |-> 0]
      ELSE TokenPrec(rhs[CHOOSE i \in I : \A k \in I : k <= i])

\* yacc's resolution of a shift/reduce conflict on lookahead a
Resolve(a, prod) ==
  LET s == TokenPrec(a)
      r == ProdPrec(prod)
  IN  IF s.level < r.level \/ (s.level = r.level /\ r.assoc = "left")
      THEN "reduce"
      ELSE IF s.level = r.level /\ r.assoc = "nonassoc" THEN "error"
      ELSE "shift"

\* the state a shift of token type a leads to
ShiftTo(a) ==
  CASE a = "AND" -> <<"A">>
    [] a = "OR" -> <<"O">>
    [] a = "NOT" -> <<"N">>
    [] a = "NEG" -> <<"G">>
    [] a = "LPAREN" -> <<"L">>
    [] a = "RPAREN" -> <<"R">>
    [] a = "OP" -> <<"OP">>
    [] a \in TermOps -> <<"OPX", a>>

\* the production a state can reduce by
ProdOf(st) ==
  CASE st[1] = "E2" -> "list_expr"
    [] st[1] = "EA" -> "boolean_expr_and"
    [] st[1] = "EO" -> "boolean_expr_or"
    [] st[1] = "EN" -> "negative_expr_not"
    [] st[1] = "EG" -> "negative_expr_neg"
    [] st[1] = "R" -> "paren_expr"
    [] st[1] = "OP" -> "op_term"
    [] st[1] = "ARGS" -> "term"

Shift(to) == [act |-> "shift", to |-> to]
Reduce(prod) == [act |-> "reduce", prod |-> prod]
Error == [act |-> "error"]

\* actions[state].get(ltype)
Action(st, a) ==
  CASE st[1] \in {"S0", "A", "O", "N", "G", "L"} ->
         IF a \in FirstExpr THEN Shift(ShiftTo(a)) ELSE Error
    [] st[1] = "OPX" ->
         IF OpSig(st[2]) = "S" /\ a \in StringTypes THEN Shift(<<"ARGS", st[2]>>)
         ELSE IF OpSig(st[2]) = "N" /\ a = "NUMBER" THEN Shift(<<"ARGS", st[2]>>)
         ELSE IF OpSig(st[2]) = "NS" /\ a = "NUMBER" THEN Shift(<<"OPN", st[2]>>)
         ELSE Error
    [] st[1] = "OPN" ->
         IF a \in StringTypes THEN Shift(<<"ARGS", st[2]>>) ELSE Error
    [] st[1] \in {"ARGS", "OP", "R"} ->
         IF a \in FollowExpr THEN Reduce(ProdOf(st)) ELSE Error
    [] st[1] = "E1" ->
         IF a = "$end" THEN [act |-> "accept"]
         ELSE IF a \in FirstExpr \cup {"AND", "OR"} THEN Shift(ShiftTo(a))
         ELSE Error
    [] st[1] = "EL" ->
         IF a \in FirstExpr \cup {"AND", "OR", "RPAREN"} THEN Shift(ShiftTo(a))
         ELSE Error
    [] st[1] \in {"E2", "EA", "EO", "EN", "EG"} ->
         IF a \in {"$end", "RPAREN"} THEN Reduce(ProdOf(st))
         ELSE IF a \in FirstExpr \cup {"AND", "OR"}
         THEN LET r == Resolve(a, ProdOf(st))
              IN  IF r = "reduce" THEN Reduce(ProdOf(st))
                  ELSE IF r = "shift" THEN Shift(ShiftTo(a))
                  ELSE Error
         ELSE Error

\* goto[state]["expression"]
GotoExpr(st) ==
  CASE st[1] = "S0" -> <<"E1">>
    [] st[1] = "A" -> <<"EA">>
    [] st[1] = "O" -> <<"EO">>
    [] st[1] = "N" -> <<"EN">>
    [] st[1] = "G" -> <<"EG">>
    [] st[1] = "L" -> <<"EL">>
    [] st[1] \in {"E1", "E2", "EA", "EO", "EN", "EG", "EL"} -> <<"E2">>

-----------------------------------------------------------------------------
(* Spec: the engine's parse() loop over a query the lexer hands out        *)
(* token by token.                                                         *)

\* the spellings the tokenizer hands the connectives in with
TAnd == Tok("AND", S_AND)
TOr == Tok("OR", S_or)

S_VV1 == <<"V", "V", "1">>
S_a == <<"a">>
S_b == <<"b">>
S_c == <<"c">>

\* "raw": any token of the language, in any order
RawTokens ==
  {TAnd, TOr, Tok("NOT", <<>>), Tok("NEG", <<>>), Tok("LPAREN", <<>>),
   Tok("RPAREN", <<>>), Tok("OP", <<>>), Tok("OP_STATUS", <<>>),
   Tok("OP_IS", <<>>), Tok("OP_HAS", <<>>), Tok("OP_LABEL", <<>>),
   Tok("OP_LIMIT", <<>>), Tok("OP_AGE", <<>>), Tok("NUMBER", <<"2">>)}
    \cup {Tok("USTRING", x) : x \in {S_open, S_draft, S_bogus, S_VV1}}

\* "grammar": connectives, negations and status terms, for longer queries
GrammarTokens ==
  {TAnd, TOr, Tok("NOT", <<>>), Tok("NEG", <<>>), Tok("OP_STATUS", <<>>)}
    \cup {Tok("USTRING", x) : x \in {S_a, S_b, S_c}}

\* "nested": has and is terms under connectives, negation and parentheses
NestedTokens ==
  {TAnd, TOr, Tok("NOT", <<>>), Tok("LPAREN", <<>>), Tok("RPAREN", <<>>),
   Tok("OP_IS", <<>>), Tok("OP_HAS", <<>>)}
    \cup {Tok("USTRING", x) : x \in {S_open, S_draft, S_bogus}}

Classes == {"raw", "grammar", "nested"}

Alphabet(c) ==
  CASE c = "raw" -> RawTokens
    [] c = "grammar" -> GrammarTokens
    [] c = "nested" -> NestedTokens

MaxTokens(c) ==
  CASE c = "raw" -> MaxRaw
    [] c = "grammar" -> MaxGrammar
    [] c = "nested" -> MaxNested

AtEnd == consumed # <<>> /\ consumed[Len(consumed)].type = "$end"

Init ==
  /\ cls \in Classes
  /\ stack = <<>>
  /\ lookahead = NoTok
  /\ lookaheadstack = <<>>
  /\ errorcount = 0
  /\ outcome = "running"
  /\ exc = "none"
  /\ result = <<"None">>
  /\ consumed = <<>>
  /\ called = <<>>
  /\ tin = Idle
  /\ tout = Pending

\* statestack[-1]
State == IF stack = <<>> THEN <<"S0">> ELSE stack[Len(stack)].st

\* the table's entry for the state and the lookahead in hand
Act == Action(State, lookahead.type)

Running == outcome = "running"
HaveToken == Running /\ lookahead.type # "none"

Pop(k) == SubSeq(stack, 1, Len(stack) - k)

\* the state under the k topmost entries
Under(k) == IF Len(stack) = k THEN <<"S0">> ELSE stack[Len(stack) - k].st

\* p[i] of a production of k symbols
P(i, k) == stack[Len(stack) - k + i].val

Call(fn, arg, e) == [fn |-> fn, arg |-> arg, exc |-> e]

\* the reduction's value pushed, and the state goto names entered
PushExpr(k, val) == Append(Pop(k), [st |-> GotoExpr(Under(k)), val |-> val])

Raised(e) ==
  /\ outcome' = "raised"
  /\ exc' = e
  /\ UNCHANGED <<stack, lookahead, lookaheadstack, errorcount, result>>

\* lookahead = get_token(), or the pushed-back token
get_token ==
  /\ Running
  /\ lookahead.type = "none"
  /\ IF lookaheadstack # <<>>
     THEN /\ lookahead' = lookaheadstack[Len(lookaheadstack)]
          /\ lookaheadstack' = SubSeq(lookaheadstack, 1, Len(lookaheadstack) - 1)
          /\ UNCHANGED consumed
     ELSE /\ \E t \in (IF AtEnd \/ Len(consumed) >= MaxTokens(cls)
                       THEN {} ELSE Alphabet(cls)) \cup {EndTok} :
               /\ lookahead' = t
               /\ consumed' = IF AtEnd THEN consumed ELSE Append(consumed, t)
          /\ UNCHANGED lookaheadstack
  /\ UNCHANGED <<stack, errorcount, outcome, exc, result, called, cls, tin, tout>>

shift ==
  /\ HaveToken
  /\ Act.act = "shift"
  /\ stack' = Append(stack, [st |-> Act.to, val |-> lookahead.value])
  /\ lookahead' = NoTok
  /\ errorcount' = IF errorcount > 0 THEN errorcount - 1 ELSE 0
  /\ UNCHANGED <<lookaheadstack, outcome, exc, result, consumed, called, cls,
                 tin, tout>>

accept ==
  /\ HaveToken
  /\ Act.act = "accept"
  /\ outcome' = "returned"
  /\ result' = stack[Len(stack)].val
  /\ UNCHANGED <<stack, lookahead, lookaheadstack, errorcount, exc, consumed,
                 called, cls, tin, tout>>

Reducing(prod) == HaveToken /\ Act.act = "reduce" /\ Act.prod = prod

Reduced(k, val) ==
  /\ stack' = PushExpr(k, val)
  /\ UNCHANGED <<lookahead, lookaheadstack, errorcount, outcome, exc, result>>

\* a mutation of list_expr: juxtaposition as a disjunction
list_expr_or(p1, p2) == or_(<<p1, p2>>)

\* the body of p_list_expr
list_expr(p1, p2) == and_(<<p1, p2>>)

p_list_expr ==
  /\ Reducing("list_expr")
  /\ Reduced(2, list_expr(P(1, 2), P(2, 2)))
  /\ called' = Append(called, Call("p_list_expr", <<>>, "none"))
  /\ UNCHANGED <<consumed, cls, tin, tout>>

p_paren_expr ==
  /\ Reducing("paren_expr")
  /\ Reduced(3, P(2, 3))
  /\ called' = Append(called, Call("p_paren_expr", <<>>, "none"))
  /\ UNCHANGED <<consumed, cls, tin, tout>>

\* the body of p_boolean_expr
boolean_expr(p1, p2, p3) ==
  IF Lower(p2) = S_and THEN Yield(and_(<<p1, p3>>))
  ELSE IF Lower(p2) = S_or THEN Yield(or_(<<p1, p3>>))
  ELSE Raise("SearchSyntaxError")

p_boolean_expr ==
  /\ HaveToken
  /\ Act.act = "reduce"
  /\ Act.prod \in {"boolean_expr_and", "boolean_expr_or"}
  /\ LET out == boolean_expr(P(1, 3), P(2, 3), P(3, 3))
     IN  /\ IF out.exc = "none" THEN Reduced(3, out.val) ELSE Raised(out.exc)
         /\ called' = Append(called, Call("p_boolean_expr", P(2, 3), out.exc))
  /\ UNCHANGED <<consumed, cls, tin, tout>>

p_negative_expr ==
  /\ HaveToken
  /\ Act.act = "reduce"
  /\ Act.prod \in {"negative_expr_not", "negative_expr_neg"}
  /\ Reduced(2, not_(P(2, 2)))
  /\ called' = Append(called, Call("p_negative_expr", <<>>, "none"))
  /\ UNCHANGED <<consumed, cls, tin, tout>>

\* the callback of the term production of operator token op
TermCallback(op, p2, p3, now) ==
  CASE op = "OP_AGE" -> p_age_term(p2, p3, now)
    [] op = "OP_RECENTLYSEEN" -> p_recentlyseen_term(p2, p3)
    [] op = "OP_LIMIT" -> p_limit_term(p2)
    [] op = "OP_STATUS" -> p_status_term(p2)
    [] op = "OP_IS" -> p_is_term(p2)
    [] op = "OP_HAS" -> p_has_term(p2)
    [] op = "OP_LABEL" -> p_label_term(p2)
    [] op = "OP_FILE" -> p_file_term(p2)
    [] op = "OP_REF" -> p_ref_term(p2)

\* a term's production reduced, with p_string, p_term and p_terms after it;
\* an exception other than SyntaxError leaves parse().  A NUMBER token is
\* kept as its digits here; the callback gets the integer the tokenizer made.
p_term ==
  /\ Reducing("term")
  /\ LET op == State[2]
         k == IF OpSig(op) = "NS" THEN 3 ELSE 2
     IN  \E now \in (IF op = "OP_AGE" THEN Nows ELSE {0}) :
           LET p2 == IF OpSig(op) = "S" THEN P(2, k) ELSE DigitsToInt(P(2, k))
               out == TermCallback(op, p2, IF k = 3 THEN P(3, k) ELSE <<>>, now)
           IN  /\ IF out.exc = "none" THEN Reduced(k, out.val)
                  ELSE Raised(out.exc)
               /\ called' = Append(called, Call(op, P(2, k), out.exc))
  /\ UNCHANGED <<consumed, cls, tin, tout>>

\* p_op_term raises SyntaxError, which the engine catches around every
\* callback: the production's symbol is dropped with its state, the
\* lookahead is pushed back, an error token takes its place and the engine
\* is in recovery, where it does not call p_error.
p_op_term_reduce ==
  /\ Reducing("op_term")
  /\ p_op_term.exc = "SyntaxError"
  /\ stack' = Pop(1)
  /\ lookaheadstack' = Append(lookaheadstack, lookahead)
  /\ lookahead' = ErrorTok
  /\ errorcount' = 3
  /\ called' = Append(called, Call("p_op_term", <<>>, "SyntaxError"))
  /\ UNCHANGED <<outcome, exc, result, consumed, cls, tin, tout>>

NoAction == HaveToken /\ Act.act = "error"

\* no entry in the table and the engine not in recovery: p_error is called
\* with the token, or with None at the end of the input, and raises
p_error ==
  /\ NoAction
  /\ errorcount = 0
  /\ Raised("SearchSyntaxError")
  /\ called' = Append(called, Call("p_error", <<>>, "SearchSyntaxError"))
  /\ UNCHANGED <<consumed, cls, tin, tout>>

\* In recovery (errorcount > 0) p_error is not called.
\* Nothing left on the stack: the token is discarded, the pushback stack
\* emptied, and parsing starts over from state 0.
recover_discard ==
  /\ NoAction
  /\ errorcount > 0
  /\ stack = <<>>
  /\ lookahead.type # "$end"
  /\ errorcount' = 3
  /\ lookahead' = NoTok
  /\ lookaheadstack' = <<>>
  /\ UNCHANGED <<stack, outcome, exc, result, consumed, called, cls, tin, tout>>

\* At the end of the input the engine gives up: parse() returns None.
recover_bail ==
  /\ NoAction
  /\ errorcount > 0
  /\ lookahead.type = "$end"
  /\ outcome' = "returned"
  /\ result' = <<"None">>
  /\ errorcount' = 3
  /\ UNCHANGED <<stack, lookahead, lookaheadstack, exc, consumed, called, cls,
                 tin, tout>>

\* A token the state has no entry for: it is pushed back and an error
\* token made the lookahead.
recover_push ==
  /\ NoAction
  /\ errorcount > 0
  /\ stack # <<>>
  /\ lookahead.type \notin {"$end", "error"}
  /\ errorcount' = 3
  /\ lookaheadstack' = Append(lookaheadstack, lookahead)
  /\ lookahead' = ErrorTok
  /\ UNCHANGED <<stack, outcome, exc, result, consumed, called, cls, tin, tout>>

\* The error token has no entry either (no production mentions error): the
\* top of the stack is dropped.
recover_pop ==
  /\ NoAction
  /\ errorcount > 0
  /\ stack # <<>>
  /\ lookahead.type = "error"
  /\ errorcount' = 3
  /\ stack' = Pop(1)
  /\ UNCHANGED <<lookahead, lookaheadstack, outcome, exc, result, consumed,
                 called, cls, tin, tout>>

Next ==
  \/ get_token
  \/ shift
  \/ accept
  \/ p_list_expr
  \/ p_paren_expr
  \/ p_boolean_expr
  \/ p_negative_expr
  \/ p_term
  \/ p_op_term_reduce
  \/ p_error
  \/ recover_discard
  \/ recover_bail
  \/ recover_push
  \/ recover_pop

Spec == Init /\ [][Next]_vars

-----------------------------------------------------------------------------
(* Properties of Spec *)

\* the query: the tokens handed out, without the end marker
Query == IF AtEnd THEN SubSeq(consumed, 1, Len(consumed) - 1) ELSE consumed

Finished == outcome \in {"returned", "raised"}

\* a status term of the "grammar" family, and the predicate it compiles to
GrammarValues == {S_a, S_b, S_c}
T(x) == <<Tok("OP_STATUS", <<>>), Tok("USTRING", x)>>
Leaf(x) == Cmp("==", "story.status", Lit(x))

\* the tokens of a binary connective; "list" is juxtaposition
Conn(o) ==
  CASE o = "AND" -> <<TAnd>> [] o = "OR" -> <<TOr>> [] o = "list" -> <<>>

\* what a binary reduction makes of its operands
Bin(o, l, r) == IF o = "OR" THEN <<"or", <<l, r>>>> ELSE <<"and", <<l, r>>>>

Compiled(q, p) == Query = q => (outcome = "returned" /\ result = p)

\* a compile of a "grammar" query of so many tokens has ended
GrammarDone(lens) == cls = "grammar" /\ Finished /\ Len(Query) \in lens

Ran(q) == cls = "grammar" /\ outcome = "returned" /\ Query = q

\* C1: a negation binds tighter than every binary reduction: for NEG in
\* {NOT, NEG} and op in {AND, OR, juxtaposition}, "NEG A op B" compiles to
\* (NOT A) op B.
C1_NegationBindsTighter ==
  GrammarDone({5, 6}) =>
    \A n \in {"NOT", "NEG"}, o \in {"AND", "OR", "list"} :
      \A x \in GrammarValues, y \in GrammarValues :
        Compiled(<<Tok(n, <<>>)>> \o T(x) \o Conn(o) \o T(y),
                 Bin(o, <<"not", Leaf(x)>>, Leaf(y)))

C1_Witness ==
  /\ Ran(<<Tok("NOT", <<>>)>> \o T(S_a) \o <<TOr>> \o T(S_b))
  /\ result = <<"or", <<<<"not", Leaf(S_a)>>, Leaf(S_b)>>>>

\* C2: juxtaposition is conjunction: "A B" and "A AND B" both compile to
\* and_(A, B).
C2_JuxtapositionIsAnd ==
  GrammarDone({4, 5}) =>
    \A x \in GrammarValues, y \in GrammarValues :
      /\ Compiled(T(x) \o T(y), <<"and", <<Leaf(x), Leaf(y)>>>>)
      /\ Compiled(T(x) \o <<TAnd>> \o T(y), <<"and", <<Leaf(x), Leaf(y)>>>>)

C2_Witness ==
  /\ Ran(T(S_a) \o T(S_b))
  /\ result = <<"and", <<Leaf(S_a), Leaf(S_b)>>>>
  /\ called[Len(called)].fn = "p_list_expr"

\* C3 as stated: binary reductions nest to the left: "A AND B OR C" is
\* (A AND B) OR C, "A OR B AND C" is (A OR B) AND C, "A B OR C" is
\* (A AND B) OR C.
C3_LeftAssociative ==
  GrammarDone({7, 8}) =>
    \A x \in GrammarValues, y \in GrammarValues, z \in GrammarValues :
      /\ Compiled(T(x) \o <<TAnd>> \o T(y) \o <<TOr>> \o T(z),
                  Bin("OR", Bin("AND", Leaf(x), Leaf(y)), Leaf(z)))
      /\ Compiled(T(x) \o <<TOr>> \o T(y) \o <<TAnd>> \o T(z),
                  Bin("AND", Bin("OR", Leaf(x), Leaf(y)), Leaf(z)))
      /\ Compiled(T(x) \o T(y) \o <<TOr>> \o T(z),
                  Bin("OR", Bin("AND", Leaf(x), Leaf(y)), Leaf(z)))

\* C3, amended: binary reductions nest to the right: "A AND B OR C" is
\* A AND (B OR C), "A OR B AND C" is A OR (B AND C), "A B OR C" is
\* A AND (B OR C).
C3_RightNested ==
  GrammarDone({7, 8}) =>
    \A x \in GrammarValues, y \in GrammarValues, z \in GrammarValues :
      /\ Compiled(T(x) \o <<TAnd>> \o T(y) \o <<TOr>> \o T(z),
                  Bin("AND", Leaf(x), Bin("OR", Leaf(y), Leaf(z))))
      /\ Compiled(T(x) \o <<TOr>> \o T(y) \o <<TAnd>> \o T(z),
                  Bin("OR", Leaf(x), Bin("AND", Leaf(y), Leaf(z))))
      /\ Compiled(T(x) \o T(y) \o <<TOr>> \o T(z),
                  Bin("AND", Leaf(x), Bin("OR", Leaf(y), Leaf(z))))

C3_Witness ==
  /\ Ran(T(S_a) \o <<TAnd>> \o T(S_b) \o <<TOr>> \o T(S_c))
  /\ result = <<"and", <<Leaf(S_a), <<"or", <<Leaf(S_b), Leaf(S_c)>>>>>>>>

\* the callbacks run so far that were p_op_term
OpTermCalls == {i \in 1..Len(called) : called[i].fn = "p_op_term"}

\* C6 as stated: once a bare OP token has been reduced as an op_term, the
\* compile ends by raising SearchSyntaxError and returns no value.
C6_BareOperatorFails ==
  (Finished /\ OpTermCalls # {})
    => (outcome = "raised" /\ exc = "SearchSyntaxError")

IsValues ==
  {S_reviewed, S_open, S_closed, S_submitted, S_merged, S_abandoned, S_owner,
   S_starred, S_held, S_reviewer, S_watched}

\* a has or is term reduced with a value that is not supported
Unsupported(c) ==
  \/ c.fn = "OP_HAS" /\ c.arg # S_draft
  \/ c.fn = "OP_IS" /\ c.arg \notin IsValues

\* C7: whatever is on the stack around it, a has or is term with an
\* unsupported value raises SearchSyntaxError out of the compile: it is the
\* last callback run, and no value is returned.
C7_UnsupportedValueFailsClosed ==
  \A i \in 1..Len(called) :
    Unsupported(called[i])
      => /\ called[i].exc = "SearchSyntaxError"
         /\ i = Len(called)
         /\ outcome = "raised"
         /\ exc = "SearchSyntaxError"

\* an unsupported is term inside parentheses on the right of a connective
C7_Witness ==
  /\ outcome = "raised"
  /\ exc = "SearchSyntaxError"
  /\ called # <<>>
  /\ called[Len(called)].fn = "OP_IS"
  /\ called[Len(called)].arg = S_bogus
  /\ \E i \in 1..Len(stack), j \in 1..Len(stack) :
       i < j /\ stack[i].st \in {<<"A">>, <<"O">>} /\ stack[j].st = <<"L">>

\* C9 as stated: every failure of a compile is a SearchSyntaxError, and a
\* label term whose value does not match label_re fails with one.
C9_OneErrorKind ==
  /\ outcome = "raised" => exc = "SearchSyntaxError"
  /\ \A i \in 1..Len(called) :
       (called[i].fn = "OP_LABEL" /\ ~label_re_match(called[i].arg).ok)
         => (outcome = "raised" /\ exc = "SearchSyntaxError")

-----------------------------------------------------------------------------
(* Properties of TermSpec *)

Translated(kind) == tin.kind = kind /\ tout.exc = "none"

\* C4 as stated: the predicate of a file term selects no row of the file
\* table whose status is null.
C4_FileRequiresStatus ==
  Translated("file")
    => \A row \in FileRows : row.status = NULL => ~Selects(tout.val, row)

\* the clauses of the subquery of a membership predicate
Clauses(p) == p[3][3][2]

OnValue(c) == c[1] = "cmp" /\ c[3] = "approval.value"

\* the label string with "=" for its operator
WithEquals(m) == m.label \o <<"=">> \o m.value

\* C5 as stated: "=", ">=" and "<=" compare approval.value accordingly, and
\* a bare "<" or ">" compiles to the predicate of the same label with "=".
C5_OtherOperatorsMeanEquality ==
  Translated("label")
    => LET m == label_re_match(tin.str)
           v == PyInt(m.value)
       IN  /\ m.operator \in {<<>>, <<"=">>}
                => Clauses(tout.val)[3] = Cmp("==", "approval.value", Lit(v))
           /\ m.operator = <<">", "=">>
                => Clauses(tout.val)[3] = Cmp(">=", "approval.value", Lit(v))
           /\ m.operator = <<"<", "=">>
                => Clauses(tout.val)[3] = Cmp("<=", "approval.value", Lit(v))
           /\ (m.operator \in {<<"<">>, <<">">>} /\ ~m.hasUser)
                => tout.val = p_label_term(WithEquals(m)).val

\* C5, amended: "=" (or no operator), ">=" and "<=" compare approval.value
\* accordingly; a bare "<" or ">" puts no condition on approval.value: the
\* subquery keeps the join and category == label (and the user, if given).
C5_OtherOperatorsDropValue ==
  Translated("label")
    => LET m == label_re_match(tin.str)
           v == PyInt(m.value)
           cl == Clauses(tout.val)
       IN  /\ cl[1] = Cmp("==", "approval.story_key", Col("story.key"))
           /\ cl[2] = Cmp("==", "approval.category", Lit(m.label))
           /\ m.operator \in {<<>>, <<"=">>}
                => cl[3] = Cmp("==", "approval.value", Lit(v))
           /\ m.operator = <<">", "=">>
                => cl[3] = Cmp(">=", "approval.value", Lit(v))
           /\ m.operator = <<"<", "=">>
                => cl[3] = Cmp("<=", "approval.value", Lit(v))
           /\ m.operator \in {<<"<">>, <<">">>}
                => /\ \A k \in 1..Len(cl) : ~OnValue(cl[k])
                   /\ Len(cl) = IF m.hasUser THEN 4 ELSE 2

C5_Witness ==
  /\ Translated("label")
  /\ tin.str = <<"V", "V", "<", "1">>
  /\ Len(Clauses(tout.val)) = 2

\* the factor of a unit as the table of the specification has it
TableFactor(u) ==
  CASE u \in {U_s, U_sec} -> 1
    [] u \in {U_m, U_min} -> 60
    [] u \in {U_h, U_hr} -> 3600
    [] u \in {U_d, U_day} -> 86400
    [] u \in {U_w, U_week} -> 604800
    [] u \in {U_mon, U_month} -> 2592000
    [] u \in {U_y, U_year} -> 31536000
    [] OTHER -> 1

\* the factor of a unit with the long and plural spellings in the table
FullFactor(u) ==
  CASE u \in {U_s, U_sec, U_second, U_seconds} -> 1
    [] u \in {U_m, U_min, U_minute, U_minutes} -> 60
    [] u \in {U_h, U_hr, U_hour, U_hours} -> 3600
    [] u \in {U_d, U_day, U_days} -> 86400
    [] u \in {U_w, U_week, U_weeks} -> 604800
    [] u \in {U_mon, U_month, U_months} -> 2592000
    [] u \in {U_y, U_year, U_years} -> 31536000
    [] OTHER -> 1

\* the term has been translated, with a predicate or with an exception
Called(kind) == tin.kind = kind /\ tout # Pending

\* the predicates of an age and of a recentlyseen term for a duration
AgePredicate(duration) ==
  Cmp("<", "story.updated", Lit(tin.now - duration))

SeenPredicate(duration) ==
  Cmp(">=", "story.last_seen",
      <<"select", <<"func.datetime", <<"func.max", "story.last_seen">>,
                    <<"-%s seconds", duration>>>>>>)

\* C8 as stated: the duration is the number times the factor of the unit in
\* the table (s/sec, m/min, h/hr, d/day, w/week, mon/month, y/year), the
\* number itself for every other unit string, and the age predicate is
\* story.updated < now - duration.
C8_DurationByTable ==
  LET duration == tin.number * TableFactor(tin.str)
  IN  /\ Called("age") => tout = Yield(AgePredicate(duration))
      /\ Called("recentlyseen") => tout = Yield(SeenPredicate(duration))

\* C8, amended: the same with the table also holding the spellings second(s),
\* minute(s), hour(s), days, weeks, months and years; and the age term
\* raises OverflowError instead when now - duration is before datetime.min.
C8_DurationByFullTable ==
  LET duration == tin.number * FullFactor(tin.str)
  IN  /\ Called("age")
           => tout = IF tin.now - duration < 0 THEN Raise("OverflowError")
                     ELSE Yield(AgePredicate(duration))
      /\ Called("recentlyseen") => tout = Yield(SeenPredicate(duration))

\* age:2hours is 7200 seconds
C8_Witness ==
  /\ Translated("age")
  /\ tin.number = 2
  /\ tin.str = U_hours
  /\ tout.val = Cmp("<", "story.updated", Lit(tin.now - 7200))

\* s without its first k characters
Without(s, k) == [i \in 1..(IF Len(s) > k THEN Len(s) - k ELSE 0) |-> s[i + k]]

\* C10: a ref term whose value does not start with "^" compares
\* story.branch with the value less its first 11 characters, whatever they
\* are; a value of 11 characters or fewer compares it with the empty string.
C10_RefDropsElevenCharacters ==
  (Translated("ref") /\ ~StartsWith(tin.str, "^"))
    => /\ tout.val = Cmp("==", "story.branch", Lit(Without(tin.str, 11)))
       /\ Len(tin.str) <= 11 => tout.val = Cmp("==", "story.branch", Lit(<<>>))

\* "refs/tags/vx" is compared as "x"
C10_Witness ==
  /\ Translated("ref")
  /\ tin.str = <<"r","e","f","s","/","t","a","g","s","/","v","x">>
  /\ tout.val = Cmp("==", "story.branch", Lit(<<"x">>))

=============================================================================
